---------------------------- MODULE Spec2Model ----------------------------
(***************************************************************************)
(* A model of src/persistence.ipynb: a notebook that parses tables out of  *)
(* saved HTML pages and persists the records as a JSON file, a CSV file    *)
(* and three SQLite tables (results, high_jump_results, heights).          *)
(*                                                                         *)
(* Cells are numbered by their position in the notebook, markdown cells    *)
(* included (cell 1 is the title; cell 2 loads the 1992 page; ...; cell 20 *)
(* reads the heights table back).  The cells are run in order by one       *)
(* kernel.  A cell that raises stops at the raising statement, keeps what  *)
(* it did before, and the next cell can still be run.  When the last cell  *)
(* is done the kernel can be restarted and the notebook run again: the     *)
(* kernel's names and open connections are lost, the files stay.           *)
(*                                                                         *)
(* A text is a tuple of one-character strings, so that str.strip() is      *)
(* computed.  A tr row is a record of the lists that the three relative    *)
(* xpath queries of the notebook extract from it: td (td/text()),          *)
(* b (td/b/text()) and a (td/a/text()).  A document is the list of its     *)
(* tables (response.xpath('//table')), a table the list of its tr rows.    *)
(***************************************************************************)
EXTENDS Naturals, Sequences, FiniteSets, TLC

VARIABLES
    html_files,     \* disk: the documents of html/, the 1992 page first
    db,             \* disk: per SQL table, whether it exists and its committed rows
    json_file,      \* disk: 1992_results.json
    csv_file,       \* disk: 1992_results.csv
    pending,        \* kernel: per SQL table, rows inserted by the open connection, not committed
    response,       \* kernel name `response`: index of the parsed document
    table,          \* kernel name `table`
    table1,         \* kernel name `table1`
    scrapped_data,  \* kernel name `scrapped_data`: list of <<key, value>> in insertion order
    column_names,   \* kernel name `column_names`
    rows,           \* kernel name `rows`
    pc,             \* the cell (or loop of a cell) to run next
    fi,             \* cell 15: index of html_file in html_files
    i,              \* row loops of cells 11, 15, 19: index of tr
    raised,         \* cells of this run that ended in an exception
    runs            \* how many times the notebook has been started

vars == <<html_files, db, json_file, csv_file, pending, response, table, table1,
          scrapped_data, column_names, rows, pc, fi, i, raised, runs>>

disk == <<html_files, db, json_file, csv_file>>
names == <<response, table, table1, scrapped_data, column_names, rows>>

----------------------------------------------------------------------------
(* Bounds *)

\* total number of tr rows over all the tables the notebook reads
MaxRows == 2
\* number of documents in html/
MaxFiles == 2
\* number of times the notebook is run (kernel restarts + 1)
MaxRuns == 2

----------------------------------------------------------------------------
(* Values *)

\* Python's None; no text is equal to it (texts hold one-character strings)
None == <<"None">>

\* a kernel name that is not bound / bound to v
Undef == [def |-> FALSE]
Val(v) == [def |-> TRUE, val |-> v]

\* a file that does not exist / holds v
NoFile == [exists |-> FALSE]
File(v) == [exists |-> TRUE, content |-> v]

Tables == {"results", "high_jump_results", "heights"}

\* the texts the documents are built from
LabelTexts == {<<"G">>, <<" ", "S">>}
AthleteTexts == {<<"A">>, <<"B", " ">>}
RankTexts == {<<"1">>}
HeightTexts == {<<"2">>}

Opt(S) == {<<>>} \cup {<<t>> : t \in S}

\* rows of the medal table (index 1) of the 1992 page: the notebook reads td/b
\* and td/a of them
MedalRows == [td : {<<>>}, b : Opt(LabelTexts), a : Opt(AthleteTexts)]
\* rows of the medal table of the other pages, which only cell 15 reads
OtherRows == [td : {<<>>}, b : Opt({<<" ", "S">>}), a : Opt({<<"B", " ">>})]
\* rows of the results table (index 3) of the 1992 page: the notebook reads td,
\* td/a and td/b of them.  A header tr (th cells) has none of the three; a tr of
\* td cells has its rank and its height, and its athlete unless the name is no link
HeightRows ==
    [td : {<<>>}, b : {<<>>}, a : {<<>>}]
    \cup [td : {<<t>> : t \in RankTexts}, b : {<<t>> : t \in HeightTexts}, a : Opt({<<"A">>})]

TablesOf(K, n) == UNION {[1..m -> K] : m \in 0..n}

\* the 1992 page: fewer than two tables, two tables, or four
FirstDocs(k) ==
    {<< <<>> >>}
    \cup {<< <<>>, m >> : m \in TablesOf(MedalRows, k)}
    \cup UNION {{<< <<>>, m, <<>>, h >> : h \in TablesOf(HeightRows, k - Len(m))} :
                    m \in TablesOf(MedalRows, k)}

\* another page of html/: only its table of index 1 is ever read
OtherDocs(k) ==
    {<< <<>> >>} \cup {<< <<>>, m >> : m \in TablesOf(OtherRows, k)}

RowsOf(doc) == (IF Len(doc) >= 2 THEN Len(doc[2]) ELSE 0)
               + (IF Len(doc) >= 4 THEN Len(doc[4]) ELSE 0)

RECURSIVE MoreFiles(_, _)
MoreFiles(n, k) ==
    IF n = 0 THEN {<<>>}
    ELSE {<<>>} \cup UNION {{<<d>> \o rest : rest \in MoreFiles(n - 1, k - RowsOf(d))} :
                                d \in OtherDocs(k)}

HtmlDirs ==
    UNION {{<<d>> \o rest : rest \in MoreFiles(MaxFiles - 1, MaxRows - RowsOf(d))} :
               d \in FirstDocs(MaxRows)}

----------------------------------------------------------------------------
(* Library behaviour the cells rely on *)

IsSpace(c) == c \in {" ", "\t", "\n"}

RECURSIVE LStrip(_)
LStrip(s) == IF s # <<>> /\ IsSpace(Head(s)) THEN LStrip(Tail(s)) ELSE s

RECURSIVE RStrip(_)
RStrip(s) == IF s # <<>> /\ IsSpace(s[Len(s)]) THEN RStrip(SubSeq(s, 1, Len(s) - 1)) ELSE s

\* str.strip()
Strip(s) == RStrip(LStrip(s))

\* .extract()[0] raises IndexError on an empty list
RaisesIndexError(list) == Len(list) = 0
Extract0(list) == list[1]

\* .extract_first(): the first text, or None
ExtractFirst(list) == IF Len(list) = 0 THEN None ELSE list[1]

\* response.xpath('//table')[n] raises IndexError when the page has no table n
HasTable(doc, n) == Len(doc) >= n + 1
TableAt(doc, n) == doc[n + 1]

\* (mutant) d[k] = v that adds a member even when the key is present
DictSetAppend(d, k, v) == Append(d, <<k, v>>)

\* (mutant) d.setdefault(k, v): a key that is present keeps its value
DictSetDefault(d, k, v) ==
    IF \E j \in 1..Len(d) : d[j][1] = k THEN d ELSE Append(d, <<k, v>>)

\* d[k] = v on a dict kept as a list of <<key, value>> in insertion order
DictSet(d, k, v) ==
    IF \E j \in 1..Len(d) : d[j][1] = k
    THEN [j \in 1..Len(d) |-> IF d[j][1] = k THEN <<k, v>> ELSE d[j]]
    ELSE Append(d, <<k, v>>)

\* SQLite: the rowid given to a new row of a table that holds rs
RECURSIVE MaxRowid(_)
MaxRowid(rs) ==
    IF rs = <<>> THEN 0
    ELSE LET m == MaxRowid(Tail(rs)) IN IF Head(rs).rowid > m THEN Head(rs).rowid ELSE m

\* (mutant) the largest rowid is given again
NextRowidStuck(rs) == IF rs = <<>> THEN 1 ELSE MaxRowid(rs)

NextRowid(rs) == MaxRowid(rs) + 1

\* (mutant) DROP TABLE IF EXISTS t; CREATE TABLE t
CreateTableDropping(d, t) == [d EXCEPT ![t] = [exists |-> TRUE, rows |-> <<>>]]

\* CREATE TABLE IF NOT EXISTS t
CreateIfNotExists(d, t) ==
    IF d[t].exists THEN d ELSE [d EXCEPT ![t] = [exists |-> TRUE, rows |-> <<>>]]

\* (mutant) INSERT OR IGNORE under a unique constraint on the text columns
InsertOrIgnore(d, p, t, fields) ==
    IF \E j \in 1..Len(d[t].rows \o p[t]) : (d[t].rows \o p[t])[j].fields = fields
    THEN p
    ELSE [p EXCEPT ![t] = Append(@, [rowid |-> MaxRowid(d[t].rows \o p[t]) + 1,
                                      fields |-> fields])]

\* cursor.execute("INSERT INTO t ..."): the row joins the connection's open
\* transaction; its rowid follows the rows the connection sees
Insert(d, p, t, fields) ==
    [p EXCEPT ![t] = Append(@, [rowid |-> NextRowid(d[t].rows \o p[t]), fields |-> fields])]

\* connection.commit()
Commit(d, p, t) == [d EXCEPT ![t].rows = @ \o p[t]]
Committed(p, t) == [p EXCEPT ![t] = <<>>]

\* select * from t through a fresh connection: the committed rows, with the
\* declared columns.  `id integer primary key` is the rowid; high_jump_results
\* declares no such column.
SelectStar(d, t) ==
    [j \in 1..Len(d[t].rows) |->
        IF t = "high_jump_results" THEN d[t].rows[j].fields
        ELSE <<d[t].rows[j].rowid>> \o d[t].rows[j].fields]

----------------------------------------------------------------------------

Init ==
    /\ html_files \in HtmlDirs
    /\ db = [t \in Tables |-> [exists |-> FALSE, rows |-> <<>>]]
    /\ json_file = NoFile
    /\ csv_file = NoFile
    /\ pending = [t \in Tables |-> <<>>]
    /\ response = Undef
    /\ table = Undef
    /\ table1 = Undef
    /\ scrapped_data = Undef
    /\ column_names = Undef
    /\ rows = Undef
    /\ pc = "c2"
    /\ fi = 0
    /\ i = 0
    /\ raised = {}
    /\ runs = 1

----------------------------------------------------------------------------
(* The cells *)

Medal == <<"M", "e", "d", "a", "l">>
Athlete == <<"A", "t", "h", "l", "e", "t", "e">>

\* the row loops of cells 3, 4, 7 and 11 raise on a row without td/b or td/a text
RowRaises(tr) == RaisesIndexError(tr.b) \/ RaisesIndexError(tr.a)

\* cell 2: read the 1992 page and parse it
Cell2 ==
    /\ pc = "c2"
    /\ response' = Val(1)
    /\ pc' = "c3"
    /\ UNCHANGED <<disk, pending, table, table1, scrapped_data, column_names, rows,
                   fi, i, raised, runs>>

\* cell 3: bind `table` to the table of index 1, print medal and athlete of each row
\* (td[1]/b and td[2]/a: the label is in the first td of a row, the link in the second)
Cell3 ==
    /\ pc = "c3"
    /\ LET doc == html_files[response.val] IN
         IF ~HasTable(doc, 1)
         THEN /\ table' = table
              /\ raised' = raised \cup {"c3"}
         ELSE /\ table' = Val(TableAt(doc, 1))
              /\ raised' = IF \E j \in 1..Len(TableAt(doc, 1)) : RowRaises(TableAt(doc, 1)[j])
                           THEN raised \cup {"c3"} ELSE raised
    /\ pc' = "c4"
    /\ UNCHANGED <<disk, pending, response, table1, scrapped_data, column_names, rows,
                   fi, i, runs>>

\* the loop of cell 4 over trs, from dict d: the dict it leaves and whether it raised
RECURSIVE BuildDict(_, _)
BuildDict(trs, d) ==
    IF trs = <<>> THEN [out |-> d, raised |-> FALSE]
    ELSE IF RowRaises(Head(trs)) THEN [out |-> d, raised |-> TRUE]
    ELSE BuildDict(Tail(trs), DictSet(d, Extract0(Head(trs).b), Extract0(Head(trs).a)))

\* cell 4: scrapped_data[medal] = athlete for each row
Cell4 ==
    /\ pc = "c4"
    /\ LET r == IF table.def THEN BuildDict(table.val, <<>>)
                ELSE [out |-> <<>>, raised |-> TRUE] IN
         /\ scrapped_data' = Val(r.out)
         /\ raised' = IF r.raised THEN raised \cup {"c4"} ELSE raised
    /\ pc' = "c5"
    /\ UNCHANGED <<disk, pending, response, table, table1, column_names, rows, fi, i, runs>>

\* json.dump of a dict: the members of the JSON object, in the dict's order
JsonDump(d) == [j \in 1..Len(d) |-> [key |-> d[j][1], value |-> d[j][2]]]

\* cell 5: write scrapped_data to 1992_results.json
Cell5 ==
    /\ pc = "c5"
    /\ json_file' = File(JsonDump(scrapped_data.val))
    /\ pc' = "c7"
    /\ UNCHANGED <<html_files, db, csv_file, pending, names, fi, i, raised, runs>>

\* the loop of cell 7 over trs, from list rs
RECURSIVE BuildRows(_, _)
BuildRows(trs, rs) ==
    IF trs = <<>> THEN [out |-> rs, raised |-> FALSE]
    ELSE IF RowRaises(Head(trs)) THEN [out |-> rs, raised |-> TRUE]
    ELSE BuildRows(Tail(trs), Append(rs, <<Extract0(Head(trs).b), Extract0(Head(trs).a)>>))

\* cell 7: rows.append([medal, athlete]) for each row
Cell7 ==
    /\ pc = "c7"
    /\ column_names' = Val(<<Medal, Athlete>>)
    /\ LET r == IF table.def THEN BuildRows(table.val, <<>>)
                ELSE [out |-> <<>>, raised |-> TRUE] IN
         /\ rows' = Val(r.out)
         /\ raised' = IF r.raised THEN raised \cup {"c7"} ELSE raised
    /\ pc' = "c8"
    /\ UNCHANGED <<disk, pending, response, table, table1, scrapped_data, fi, i, runs>>

\* (mutant) the rows without the writerow(column_names) line
CsvWriteNoHeader(header, rs) == rs

\* csv.writer: writerow(header) then writerows(rs), one line per row
CsvWrite(header, rs) == <<header>> \o rs

\* cell 8: write column_names and rows to 1992_results.csv
Cell8 ==
    /\ pc = "c8"
    /\ csv_file' = File(CsvWrite(column_names.val, rows.val))
    /\ pc' = "c10"
    /\ UNCHANGED <<html_files, db, json_file, pending, names, fi, i, raised, runs>>

\* cell 10: create table results, commit
Cell10 ==
    /\ pc = "c10"
    /\ db' = CreateIfNotExists(db, "results")
    /\ pc' = "c11"
    /\ UNCHANGED <<html_files, json_file, csv_file, pending, names, fi, i, raised, runs>>

\* cell 11, up to the loop: connect; the for statement raises NameError without `table`
Cell11 ==
    /\ pc = "c11"
    /\ IF table.def
       THEN /\ i' = 1
            /\ pc' = "c11row"
            /\ raised' = raised
       ELSE /\ i' = i
            /\ pc' = "c13"
            /\ raised' = raised \cup {"c11"}
    /\ UNCHANGED <<disk, pending, names, fi, runs>>

\* cell 11, one row: insert (medal, athlete) into results and commit
Cell11Row ==
    /\ pc = "c11row"
    /\ i <= Len(table.val)
    /\ ~RowRaises(table.val[i])
    /\ LET tr == table.val[i]
           p == Insert(db, pending, "results", <<Extract0(tr.b), Extract0(tr.a)>>) IN
         /\ db' = Commit(db, p, "results")
         /\ pending' = Committed(p, "results")
    /\ i' = i + 1
    /\ UNCHANGED <<html_files, json_file, csv_file, names, pc, fi, raised, runs>>

\* cell 11, a row without td/b or td/a text: extract()[0] raises, the cell stops
Cell11Raise ==
    /\ pc = "c11row"
    /\ i <= Len(table.val)
    /\ RowRaises(table.val[i])
    /\ raised' = raised \cup {"c11"}
    /\ pc' = "c13"
    /\ UNCHANGED <<disk, pending, names, fi, i, runs>>

\* cell 11, after the last row
Cell11Done ==
    /\ pc = "c11row"
    /\ i > Len(table.val)
    /\ pc' = "c13"
    /\ UNCHANGED <<disk, pending, names, fi, i, raised, runs>>

\* cell 13: a new connection reads results back
Cell13 ==
    /\ pc = "c13"
    /\ rows' = Val(SelectStar(db, "results"))
    /\ pc' = "c14"
    /\ UNCHANGED <<disk, pending, response, table, table1, scrapped_data, column_names,
                   fi, i, raised, runs>>

\* cell 14: connect to results.db, create table high_jump_results, commit
Cell14 ==
    /\ pc = "c14"
    /\ db' = CreateIfNotExists(db, "high_jump_results")
    /\ pc' = "c15"
    /\ UNCHANGED <<html_files, json_file, csv_file, pending, names, fi, i, raised, runs>>

\* cell 15, up to the loop: list the files of html/
Cell15 ==
    /\ pc = "c15"
    /\ fi' = 1
    /\ pc' = "c15file"
    /\ UNCHANGED <<disk, pending, names, i, raised, runs>>

\* cell 15, one file: read it, parse it, bind `table` to its table of index 1
Cell15File ==
    /\ pc = "c15file"
    /\ fi <= Len(html_files)
    /\ HasTable(html_files[fi], 1)
    /\ response' = Val(fi)
    /\ table' = Val(TableAt(html_files[fi], 1))
    /\ i' = 1
    /\ pc' = "c15row"
    /\ UNCHANGED <<disk, pending, table1, scrapped_data, column_names, rows, fi, raised, runs>>

\* cell 15, a file with fewer than two tables: [1] raises outside the try, the
\* cell stops before conn.commit() and conn.close()
Cell15FileRaise ==
    /\ pc = "c15file"
    /\ fi <= Len(html_files)
    /\ ~HasTable(html_files[fi], 1)
    /\ response' = Val(fi)
    /\ raised' = raised \cup {"c15"}
    /\ pc' = "c16"
    /\ UNCHANGED <<disk, pending, table, table1, scrapped_data, column_names, rows,
                   fi, i, runs>>

\* (mutant) cell 15 with conn.commit() after each insert
Cell15RowCommitting ==
    /\ pc = "c15row"
    /\ i <= Len(table.val)
    /\ LET tr == table.val[i]
           p == IF RaisesIndexError(tr.b) \/ RaisesIndexError(tr.a)
                THEN pending
                ELSE [pending EXCEPT !["high_jump_results"] =
                         Append(@, [rowid |-> MaxRowid(db["high_jump_results"].rows) + 1,
                                    fields |-> <<Strip(tr.b[1]), Strip(tr.a[1])>>])] IN
         /\ db' = [db EXCEPT !["high_jump_results"].rows = @ \o p["high_jump_results"]]
         /\ pending' = [p EXCEPT !["high_jump_results"] = <<>>]
    /\ i' = i + 1
    /\ UNCHANGED <<html_files, json_file, csv_file, names, pc, fi, raised, runs>>

\* cell 15, one row: insert (rank, athlete), stripped; on IndexError continue
Cell15Row ==
    /\ pc = "c15row"
    /\ i <= Len(table.val)
    /\ LET tr == table.val[i] IN
         pending' = IF RaisesIndexError(tr.b) \/ RaisesIndexError(tr.a)
                    THEN pending
                    ELSE Insert(db, pending, "high_jump_results",
                                <<Strip(Extract0(tr.b)), Strip(Extract0(tr.a))>>)
    /\ i' = i + 1
    /\ UNCHANGED <<disk, names, pc, fi, raised, runs>>

\* (mutant) cell 15 with conn.commit() at the end of each file
Cell15NextFileCommitting ==
    /\ pc = "c15row"
    /\ i > Len(table.val)
    /\ db' = [db EXCEPT !["high_jump_results"].rows = @ \o pending["high_jump_results"]]
    /\ pending' = [pending EXCEPT !["high_jump_results"] = <<>>]
    /\ fi' = fi + 1
    /\ pc' = "c15file"
    /\ UNCHANGED <<html_files, json_file, csv_file, names, i, raised, runs>>

\* cell 15, after the last row of a file: the next file
Cell15NextFile ==
    /\ pc = "c15row"
    /\ i > Len(table.val)
    /\ fi' = fi + 1
    /\ pc' = "c15file"
    /\ UNCHANGED <<disk, pending, names, i, raised, runs>>

\* cell 15, after the last file: conn.commit(), conn.close()
Cell15Commit ==
    /\ pc = "c15file"
    /\ fi > Len(html_files)
    /\ db' = Commit(db, pending, "high_jump_results")
    /\ pending' = Committed(pending, "high_jump_results")
    /\ pc' = "c16"
    /\ UNCHANGED <<html_files, json_file, csv_file, names, fi, i, raised, runs>>

\* cell 16: `conn` is bound to a new connection, which reads high_jump_results
\* back; a connection that cell 15 left open is dropped with its transaction
Cell16 ==
    /\ pc = "c16"
    /\ pending' = [pending EXCEPT !["high_jump_results"] = <<>>]
    /\ rows' = Val(SelectStar(db, "high_jump_results"))
    /\ pc' = "c17"
    /\ UNCHANGED <<disk, response, table, table1, scrapped_data, column_names,
                   fi, i, raised, runs>>

\* cell 17: parse the 1992 page again, bind `table1` to the table of index 3 and
\* print rank, name and height of each row (extract_first never raises)
Cell17 ==
    /\ pc = "c17"
    /\ response' = Val(1)
    /\ IF HasTable(html_files[1], 3)
       THEN /\ table1' = Val(TableAt(html_files[1], 3))
            /\ raised' = raised
       ELSE /\ table1' = table1
            /\ raised' = raised \cup {"c17"}
    /\ pc' = "c18"
    /\ UNCHANGED <<disk, pending, table, scrapped_data, column_names, rows, fi, i, runs>>

\* cell 18: connect to 1992_jump_results.db, create table heights, commit
Cell18 ==
    /\ pc = "c18"
    /\ db' = CreateIfNotExists(db, "heights")
    /\ pc' = "c19"
    /\ UNCHANGED <<html_files, json_file, csv_file, pending, names, fi, i, raised, runs>>

\* cell 19, up to the loop: parse the 1992 page, bind `table1`
Cell19 ==
    /\ pc = "c19"
    /\ response' = Val(1)
    /\ IF HasTable(html_files[1], 3)
       THEN /\ table1' = Val(TableAt(html_files[1], 3))
            /\ i' = 1
            /\ pc' = "c19row"
            /\ raised' = raised
       ELSE /\ table1' = table1
            /\ i' = i
            /\ pc' = "c20"
            /\ raised' = raised \cup {"c19"}
    /\ UNCHANGED <<disk, pending, table, scrapped_data, column_names, rows, fi, runs>>

\* cell 19, one row: insert (rank, name, height) into heights and commit.  The
\* three extract_first() calls return None for a missing node and nothing in the
\* try block raises AttributeError, so the except branch is never taken.
Cell19Row ==
    /\ pc = "c19row"
    /\ i <= Len(table1.val)
    /\ LET tr == table1.val[i]
           p == Insert(db, pending, "heights",
                       <<ExtractFirst(tr.td), ExtractFirst(tr.a), ExtractFirst(tr.b)>>) IN
         /\ db' = Commit(db, p, "heights")
         /\ pending' = Committed(p, "heights")
    /\ i' = i + 1
    /\ UNCHANGED <<html_files, json_file, csv_file, names, pc, fi, raised, runs>>

\* cell 19, after the last row
Cell19Done ==
    /\ pc = "c19row"
    /\ i > Len(table1.val)
    /\ pc' = "c20"
    /\ UNCHANGED <<disk, pending, names, fi, i, raised, runs>>

\* cell 20: a new connection reads heights back
Cell20 ==
    /\ pc = "c20"
    /\ rows' = Val(SelectStar(db, "heights"))
    /\ pc' = "end"
    /\ UNCHANGED <<disk, pending, response, table, table1, scrapped_data, column_names,
                   fi, i, raised, runs>>

\* the kernel is restarted and the notebook run again: names and connections
\* are gone (an open transaction is rolled back), the files stay
Restart ==
    /\ pc = "end"
    /\ runs < MaxRuns
    /\ runs' = runs + 1
    /\ pending' = [t \in Tables |-> <<>>]
    /\ response' = Undef
    /\ table' = Undef
    /\ table1' = Undef
    /\ scrapped_data' = Undef
    /\ column_names' = Undef
    /\ rows' = Undef
    /\ fi' = 0
    /\ i' = 0
    /\ raised' = {}
    /\ pc' = "c2"
    /\ UNCHANGED disk

Next ==
    \/ Cell2 \/ Cell3 \/ Cell4 \/ Cell5 \/ Cell7 \/ Cell8
    \/ Cell10 \/ Cell11 \/ Cell11Row \/ Cell11Raise \/ Cell11Done \/ Cell13
    \/ Cell14 \/ Cell15 \/ Cell15File \/ Cell15FileRaise \/ Cell15Row
    \/ Cell15NextFile \/ Cell15Commit \/ Cell16
    \/ Cell17 \/ Cell18 \/ Cell19 \/ Cell19Row \/ Cell19Done \/ Cell20
    \/ Restart

Spec == Init /\ [][Next]_vars

----------------------------------------------------------------------------
(* Vocabulary of the properties *)

Order == <<"c2", "c3", "c4", "c5", "c7", "c8", "c10", "c11", "c11row", "c13", "c14",
           "c15", "c15file", "c15row", "c16", "c17", "c18", "c19", "c19row", "c20", "end">>

Pos(l) == CHOOSE k \in 1..Len(Order) : Order[k] = l

\* cell c has been run in this run of the notebook
Past(c) == Pos(pc) > Pos(c)

IsPrefix(s, t) == Len(s) <= Len(t) /\ SubSeq(t, 1, Len(s)) = s

\* the medal table of the 1992 page, which cells 3 to 11 read
T1 == TableAt(html_files[1], 1)
Label(tr) == Extract0(tr.b)
Name(tr) == Extract0(tr.a)

\* cells 3, 4, 7 and 11 ran over the whole medal table
Extracted(c) == Past(c) /\ c \notin raised /\ HasTable(html_files[1], 1)

LabelsSeen == {Label(T1[j]) : j \in 1..Len(T1)}

\* the last row of T1 that carries label l
LastWith(l) == CHOOSE j \in 1..Len(T1) :
                   /\ Label(T1[j]) = l
                   /\ \A k \in 1..Len(T1) : Label(T1[k]) = l => k <= j

----------------------------------------------------------------------------
(* C4: the JSON output is a mapping whose key set is exactly the set of    *)
(* distinct labels of the table's rows, with one entry per distinct label. *)
C4_JsonKeysAreDistinctLabels ==
    (Extracted("c4") /\ Past("c5")) =>
        /\ json_file.exists
        /\ {json_file.content[j].key : j \in 1..Len(json_file.content)} = LabelsSeen
        /\ Len(json_file.content) = Cardinality(LabelsSeen)

\* two rows with the same label have gone into one JSON entry
C4_Witness ==
    /\ Extracted("c4") /\ Past("c5")
    /\ Len(T1) = 2
    /\ Label(T1[1]) = Label(T1[2])
    /\ Len(json_file.content) = 1

(* C5: the CSV output is the row of column names ["Medal", "Athlete"]      *)
(* followed by one row per extracted record, in extraction order.          *)
C5_CsvIsHeaderThenRecords ==
    /\ pc = "c10" =>
          /\ csv_file.exists
          /\ Len(csv_file.content) = 1 + Len(rows.val)
          /\ csv_file.content[1] = <<Medal, Athlete>>
          /\ \A j \in 1..Len(rows.val) : csv_file.content[j + 1] = rows.val[j]
    /\ (Extracted("c7") /\ Past("c8")) =>
          /\ Len(csv_file.content) = 1 + Len(T1)
          /\ \A j \in 1..Len(T1) : csv_file.content[j + 1] = <<Label(T1[j]), Name(T1[j])>>

\* a CSV file of two different records has been written
C5_Witness ==
    /\ pc = "c10"
    /\ Extracted("c7")
    /\ Len(T1) = 2
    /\ T1[1] # T1[2]
    /\ Len(csv_file.content) = 3

(* C10: when rows share a label the JSON mapping keeps the athlete of the  *)
(* last such row, while the CSV rows and the SQL inserts keep one record   *)
(* per row; the JSON has as many entries as there are CSV/SQL records only *)
(* when all labels are distinct.                                           *)
C10_JsonLastWinsCsvSqlKeepAll ==
    (pc = "c13" /\ Extracted("c4") /\ Extracted("c7") /\ Extracted("c11")) =>
        /\ \A j \in 1..Len(json_file.content) :
              LET m == json_file.content[j] IN
                /\ m.key \in LabelsSeen
                /\ m.value = Name(T1[LastWith(m.key)])
        /\ Len(csv_file.content) - 1 = Len(T1)
        /\ Len(db["results"].rows) = runs * Len(T1)
        /\ \A j \in 1..Len(T1) :
              db["results"].rows[(runs - 1) * Len(T1) + j].fields = <<Label(T1[j]), Name(T1[j])>>
        /\ (Len(json_file.content) = Len(T1)) <=> (Cardinality(LabelsSeen) = Len(T1))

\* two rows with one label and two athletes: one JSON entry, two CSV/SQL records
C10_Witness ==
    /\ pc = "c13" /\ Extracted("c4") /\ Extracted("c7") /\ Extracted("c11")
    /\ Len(T1) = 2
    /\ Label(T1[1]) = Label(T1[2])
    /\ Name(T1[1]) # Name(T1[2])
    /\ Len(json_file.content) = 1
    /\ Len(csv_file.content) = 3

----------------------------------------------------------------------------
\* the results table (index 3) of the 1992 page, which cells 17 and 19 read
T3 == TableAt(html_files[1], 3)

\* a row of T3 with its rank, its athlete and its height
Complete3(tr) == tr.td # <<>> /\ tr.a # <<>> /\ tr.b # <<>>

\* how many rows of the medal tables of files fs have both a label and an athlete
RECURSIVE CompleteMedalRows(_)
CompleteMedalRows(fs) ==
    IF fs = <<>> THEN 0
    ELSE Cardinality({j \in 1..Len(TableAt(Head(fs), 1)) : ~RowRaises(TableAt(Head(fs), 1)[j])})
         + CompleteMedalRows(Tail(fs))

\* the committed rows of t are n copies of one block of records, numbered 1, 2, ...
Repeats(t, n) ==
    LET R == db[t].rows IN
      \E m \in 0..Len(R) :
          /\ Len(R) = n * m
          /\ \A j \in 1..Len(R) :
                /\ R[j].rowid = j
                /\ R[j].fields = R[((j - 1) % m) + 1].fields

(* C3: running the same extraction-and-insert step again on an existing    *)
(* table is not idempotent: after n runs the table holds n times the rows  *)
(* of one run, the records of the document once per run, and the rows of   *)
(* the earlier runs are as they were.                                      *)
C3_RunsDuplicateRows ==
    pc = "end" =>
        /\ \A t \in Tables : Repeats(t, runs)
        /\ Extracted("c11") => Len(db["results"].rows) = runs * Len(T1)
        /\ "c15" \notin raised =>
              Len(db["high_jump_results"].rows) = runs * CompleteMedalRows(html_files)

\* the notebook has run twice and both tables hold their records twice
C3_Witness ==
    /\ pc = "end"
    /\ runs = 2
    /\ Extracted("c11")
    /\ Len(T1) >= 1
    /\ Len(db["results"].rows) = 2 * Len(T1)
    /\ "c15" \notin raised
    /\ Len(db["high_jump_results"].rows) >= 2

----------------------------------------------------------------------------
\* `rows` is what a read-back of t returns: every committed row, as a tuple of
\* `width` columns whose first is an identity larger than all those before it
ReturnedWithIdentity(t, width) ==
    /\ Len(rows.val) = Len(db[t].rows)
    /\ \A j \in 1..Len(rows.val) :
          /\ Len(rows.val[j]) = width
          /\ SubSeq(rows.val[j], 2, width) = db[t].rows[j].fields
    /\ \A j, k \in 1..Len(rows.val) : j < k => rows.val[j][1] < rows.val[k][1]

\* `rows` is every committed row of t, as a tuple of its text columns alone
ReturnedWithoutIdentity(t, width) ==
    /\ Len(rows.val) = Len(db[t].rows)
    /\ \A j \in 1..Len(rows.val) :
          /\ Len(rows.val[j]) = width
          /\ rows.val[j] = db[t].rows[j].fields

(* C2, as claimed: for each of results, high_jump_results and heights, a   *)
(* read through a fresh connection returns every committed row, each with  *)
(* an identity value greater than that of every row inserted before it.    *)
C2_Original ==
    /\ pc = "c14" => ReturnedWithIdentity("results", 3)
    /\ pc = "c17" => ReturnedWithIdentity("high_jump_results", 3)
    /\ pc = "end" => ReturnedWithIdentity("heights", 4)

C2_ReadBack ==
    /\ pc = "c14" => ReturnedWithIdentity("results", 3)
    /\ pc = "c17" => ReturnedWithoutIdentity("high_jump_results", 2)
    /\ pc = "end" => ReturnedWithIdentity("heights", 4)

(* C2, amended: the committed rows of the three tables survive a restart   *)
(* and a later read through a fresh connection returns all of them; the    *)
(* rows of results and heights carry an identity greater than that of      *)
(* every row inserted before, the rows of high_jump_results are returned   *)
(* as (rank, athlete) with no identity.                                    *)
C2_Amended ==
    /\ []C2_ReadBack
    /\ [][pc = "end" => db' = db]_vars

\* after a restart the read-back of results returns rows of the earlier run
\* and of this one
C2_Witness ==
    /\ pc = "c14"
    /\ runs = 2
    /\ Extracted("c11")
    /\ Len(T1) >= 1
    /\ Len(rows.val) = 2 * Len(T1)

----------------------------------------------------------------------------
(* C8: creating a table that exists raises nothing and leaves its rows and *)
(* their identities as they are; rows are added by the insert steps only,  *)
(* and no step removes or changes a committed row.                         *)
C8_CreateIfNotExistsFrame ==
    [][ /\ pc \in {"c10", "c14", "c18"} =>
              /\ raised' = raised
              /\ \A t \in Tables : db[t].exists => db'[t] = db[t]
              /\ \A t \in Tables : db'[t].rows = db[t].rows
        /\ \A t \in Tables : IsPrefix(db[t].rows, db'[t].rows)
        /\ db'["results"].rows # db["results"].rows => pc = "c11row"
        /\ db'["high_jump_results"].rows # db["high_jump_results"].rows => pc = "c15file"
        /\ db'["heights"].rows # db["heights"].rows => pc = "c19row"
      ]_vars

\* cell 10 has run on a results table that held rows
C8_Witness ==
    /\ pc = "c11"
    /\ runs = 2
    /\ db["results"].exists
    /\ Len(db["results"].rows) >= 1

----------------------------------------------------------------------------
(* C6, as claimed: in the multi-file loop, when the next file begins the   *)
(* rows inserted for the files before it have been committed.              *)
C6_Original ==
    (pc = "c15file" /\ fi > 1 /\ fi <= Len(html_files)) =>
        pending["high_jump_results"] = <<>>

C6_Committed ==
    /\ pending["results"] = <<>>
    /\ pending["heights"] = <<>>
    /\ (pc = "c16" /\ "c15" \notin raised) => pending["high_jump_results"] = <<>>
    /\ pc \notin {"c15file", "c15row", "c16"} => pending["high_jump_results"] = <<>>

(* C6, amended: the single-file loops (results, heights) commit after each *)
(* insert; the multi-file loop commits once, after the last file, so while *)
(* it runs the rows of the files already processed are not committed, and  *)
(* when the cell completes all of them are.                                *)
C6_Amended ==
    /\ []C6_Committed
    /\ [][db'["high_jump_results"].rows # db["high_jump_results"].rows =>
              /\ pc = "c15file"
              /\ fi > Len(html_files)
              /\ pc' = "c16"
              /\ pending'["high_jump_results"] = <<>>]_vars

\* cell 15 has committed, at its end, rows of two files
C6_Witness ==
    /\ pc = "c16"
    /\ "c15" \notin raised
    /\ Len(html_files) = 2
    /\ CompleteMedalRows(<<html_files[1]>>) = 1
    /\ CompleteMedalRows(<<html_files[2]>>) = 1
    /\ Len(db["high_jump_results"].rows) = 2 * runs

----------------------------------------------------------------------------
(* C9: in the multi-file loop a failure outside the per-row try (a page    *)
(* with fewer than two tables) stops the cell before its only commit, and  *)
(* none of the rows inserted in the run, those of earlier files included,  *)
(* is committed or seen by a new connection; in the single-file loop of    *)
(* cell 11, which commits in the loop, a failure at row k leaves exactly   *)
(* the rows before k committed.                                            *)
C9_AbortBeforeCommit ==
    /\ "c15" \in raised =>
          /\ \E f \in 1..Len(html_files) : ~HasTable(html_files[f], 1)
          /\ db["high_jump_results"].rows = <<>>
          /\ pc = "c17" => rows.val = <<>>
    /\ (pc = "c13" /\ "c11" \in raised /\ table.def) =>
          /\ RowRaises(T1[i])
          /\ \A j \in 1..(i - 1) : ~RowRaises(T1[j])
          /\ Len(db["results"].rows) = runs * (i - 1)
          /\ \A j \in 1..(i - 1) :
                db["results"].rows[(runs - 1) * (i - 1) + j].fields
                    = <<Label(T1[j]), Name(T1[j])>>

\* cell 11 stopped at its second row with the first committed, and cell 15
\* stopped at its second file with a row of the first inserted
C9_Witness ==
    /\ pc = "c16"
    /\ "c15" \in raised
    /\ fi = 2
    /\ pending["high_jump_results"] # <<>>
    /\ "c11" \in raised
    /\ Len(db["results"].rows) = runs

----------------------------------------------------------------------------
\* the multi-file loop alone: rows without a label or an athlete are left out
\* and do not stop the loop
C1_MultiFileLoopSkips ==
    /\ (pc = "c16" /\ "c15" \notin raised) =>
          Len(db["high_jump_results"].rows) = runs * CompleteMedalRows(html_files)
    /\ "c15" \in raised => \E f \in 1..Len(html_files) : ~HasTable(html_files[f], 1)

(* C1: in the loops that persist records (the multi-file loop and the      *)
(* heights loop) a row that lacks an expected field is left out of the     *)
(* output and the other rows of the batch are still processed.             *)
C1_IncompleteRowsSkipped ==
    /\ C1_MultiFileLoopSkips
    /\ (pc = "c20" /\ "c19" \notin raised) =>
          Len(db["heights"].rows) = runs * Cardinality({j \in 1..Len(T3) : Complete3(T3[j])})
    /\ "c19" \in raised => ~HasTable(html_files[1], 3)

(* C7: every field of every record written to the JSON file, the CSV file  *)
(* or one of the three SQL tables is a string, never None.                 *)
C7_NoNoneField ==
    /\ json_file.exists =>
          \A j \in 1..Len(json_file.content) :
              json_file.content[j].key # None /\ json_file.content[j].value # None
    /\ csv_file.exists =>
          \A j \in 1..Len(csv_file.content) :
              \A k \in 1..Len(csv_file.content[j]) : csv_file.content[j][k] # None
    /\ \A t \in Tables : \A j \in 1..Len(db[t].rows) :
          \A k \in 1..Len(db[t].rows[j].fields) : db[t].rows[j].fields[k] # None

=============================================================================
